---- MODULE Spec2Model ----
(***************************************************************************)
(* A model of the ProdKit command-line installer (src/prodkit/cli.py):     *)
(* the environment detector, the Claude CLI probe, one run of the `init`   *)
(* command under the top-level handler `main`, and the description scanner *)
(* of the `list` command on one command file.                              *)
(*                                                                         *)
(* One behaviour is one process: the command line (argv), the ambient      *)
(* world (platform, environment variables, search path, working directory, *)
(* file system) are fixed by Init; the answers typed at prompts and the    *)
(* outcomes of mkdir, of the script lookup and of the child process are    *)
(* chosen when the code asks for them.                                     *)
(***************************************************************************)
EXTENDS Integers, Sequences, FiniteSets, TLC

VARIABLES
    argv,               \* the parsed command line: project_name, here, ai, terminal, force
    system,             \* platform.system()
    environ,            \* os.environ of the parent process
    which_claude,       \* whether shutil.which("claude") finds an executable
    cwd,                \* Path.cwd()
    fs,                 \* the paths that exist
    project_name,       \* init's local project_name (reassigned by the code)
    ai,                 \* init's local ai
    terminal,           \* init's local terminal
    target_dir,         \* init's local target_dir
    detected_terminal,  \* init's local detected_terminal
    detected_os,        \* init's local detected_os
    prompts,            \* the Prompt.ask calls made so far, in order
    confirms,           \* the Confirm.ask calls made so far, in order
    mkdirs,             \* the mkdir calls made so far (at most one)
    child,              \* the subprocess.run calls made so far (at most one)
    returncode,         \* result.returncode
    report,             \* which final panel/message was printed
    exc,                \* the exception propagating out of init, if any
    exit_code,          \* the exit status of the process
    visited,            \* the statements executed so far
    cmd_file,           \* list_commands: the lines of the command file being read
    line_no,            \* list_commands: the index of the next line the for loop yields
    in_frontmatter,     \* list_commands' local in_frontmatter
    description,        \* list_commands' local description
    read_error,         \* list_commands: whether reading the file raised
    table,              \* list_commands: the descriptions of the rows added so far
    pc                  \* the statement init/main/list_commands is at

vars == <<argv, system, environ, which_claude, cwd, fs, project_name, ai, terminal,
          target_dir, detected_terminal, detected_os, prompts, confirms, mkdirs, child,
          returncode, report, exc, exit_code, visited, cmd_file, line_no,
          in_frontmatter, description, read_error, table, pc>>

\* What init reads and never writes.
world == <<argv, system, environ, which_claude, cwd>>

\* What list_commands writes, and init never touches.
scanner == <<cmd_file, line_no, in_frontmatter, description, read_error, table>>

(***************************************************************************)
(* Bounds of the model.                                                    *)
(***************************************************************************)
\* The working directory is the root or the prefix of this depth of DeepPath.
MaxCwdDepth == 2
\* The provisioning script's exit codes range over 0..MaxReturnCode.
MaxReturnCode == 255
\* A command file has at most this many lines.
MaxLines == 4

(***************************************************************************)
(* Values.                                                                 *)
(***************************************************************************)
\* Python's None for an Optional[str] parameter or an unset local.
None == "<None>"

\* Python truthiness of an Optional[str]: None and "" are false.
TruthyIsNotNone(s) == s # None

Truthy(s) == s # None /\ s # ""

\* A path is the sequence of its segments below the root; <<>> is "/".
DeepPath == <<"srv", "app", "web", "api">>

\* The value of a path variable not yet assigned.
NoPath == <<None>>

\* Path.name: the final segment, "" for the root.
PathName(p) == IF p = <<>> THEN "" ELSE p[Len(p)]

\* Path / name for a name without separators: "." and "" add no segment.
PathJoin(p, name) == IF name \in {"", "."} THEN p ELSE Append(p, name)

\* str(path)
RECURSIVE PathStr(_)
PathStr(p) ==
    IF p = <<>> THEN "/"
    ELSE IF Len(p) = 1 THEN "/" \o p[1]
    ELSE PathStr(SubSeq(p, 1, Len(p) - 1)) \o "/" \o p[Len(p)]

\* The path and every ancestor of it.
Ancestors(p) == {SubSeq(p, 1, n) : n \in 0..Len(p)}

\* Path.exists()
Exists(p) == p \in fs

\* `t in s` for Python strings.
Contains(s, t) ==
    \E i \in 1..(Len(s) - Len(t) + 1) : SubSeq(s, i, i + Len(t) - 1) = t

\* os.environ.get(key, default) on an environment e.
EnvGet(e, key, default) == IF key \in DOMAIN e THEN e[key] ELSE default

\* e[key] = value on a copy of the environment e.
EnvPut(e, key, value) ==
    [k \in DOMAIN e \cup {key} |-> IF k = key THEN value ELSE e[k]]

(***************************************************************************)
(* Environment Detector.                                                   *)
(***************************************************************************)
\* str.lower() on the platform identifiers the model draws from.
Lower(s) ==
    CASE s = "Darwin" -> "darwin"
      [] s = "Windows" -> "windows"
      [] s = "Linux" -> "linux"
      [] s = "FreeBSD" -> "freebsd"
      [] s = "Java" -> "java"
      [] OTHER -> s

detect_os(sys) ==
    LET s == Lower(sys) IN
    IF s = "darwin" THEN "macos"
    ELSE IF s = "windows" THEN "windows"
    ELSE "linux"

detect_shell(sys, e) ==
    LET shell == EnvGet(e, "SHELL", "") IN
    IF Contains(shell, "bash") THEN "bash"
    ELSE IF Contains(shell, "zsh") THEN "zsh"
    ELSE IF Contains(shell, "fish") THEN "fish"
    ELSE IF sys = "Windows" THEN "powershell"
    ELSE "bash"

detect_terminal_macos_shell(sys, e) ==
    LET os_type == detect_os(sys)
        shell == detect_shell(sys, e) IN
    IF os_type = "windows" THEN "powershell" ELSE shell

detect_terminal(sys, e) ==
    LET os_type == detect_os(sys)
        shell == detect_shell(sys, e) IN
    IF os_type = "windows" THEN "powershell"
    ELSE IF os_type = "macos" THEN (IF shell = "zsh" THEN "zsh" ELSE "bash")
    ELSE shell

(***************************************************************************)
(* Toolchain Prober.                                                       *)
(***************************************************************************)
check_claude_code_ignores_path(e, which) ==
    Truthy(EnvGet(e, "CLAUDE_CODE", None))

check_claude_code(e, which) ==
    IF Truthy(EnvGet(e, "CLAUDE_CODE", None)) THEN TRUE
    ELSE IF which THEN TRUE
    ELSE FALSE

(***************************************************************************)
(* Exceptions and exit statuses.                                           *)
(***************************************************************************)
NoExc == [type |-> "none", code |-> 0]
SystemExit(n) == [type |-> "SystemExit", code |-> n]
OSError == [type |-> "OSError", code |-> 0]

\* issubclass(type, Exception): SystemExit and KeyboardInterrupt derive from
\* BaseException only.
IsException(type) == type \in {"Exception", "OSError"}

\* The exit status the operating system records for sys.exit(n): eight bits.
ExitStatus(n) == n % 256

\* The handler of init's try statement: what leaves the statement when e was
\* raised inside it.
InitExceptBare(e) == SystemExit(1)

InitExcept(e) == IF IsException(e.type) THEN SystemExit(1) ELSE e

\* The handlers of main: the exit status of the process when e leaves app().
MainExceptSwallow(e) ==
    IF e.type = "KeyboardInterrupt" THEN 130
    ELSE IF IsException(e.type) THEN 0
    ELSE ExitStatus(e.code)

MainExcept(e) ==
    IF e.type = "KeyboardInterrupt" THEN 130
    ELSE IF IsException(e.type) THEN 1
    ELSE ExitStatus(e.code)

(***************************************************************************)
(* init: the conditions and values it computes.                            *)
(***************************************************************************)
\* The "use current directory" test of the target-directory step.
UsesCurrentDirHereOnly(here, name) == here

UsesCurrentDir(here, name) == here \/ name = "."

\* The test guarding the "directory already exists" warning.
DirExistsWarning(exists, here, name) == exists /\ ~here /\ name # "."

\* The terminal menu for the detected OS.
TerminalChoices(os) ==
    IF os = "windows" THEN {"1", "2"} ELSE {"1", "2", "3"}

\* The default key of the terminal menu.
TerminalDefault(os, detected) ==
    IF os = "windows" \/ detected = "bash" THEN "1" ELSE "2"

\* The terminal a menu key selects.
TerminalOfChoice(os, choice) ==
    IF os = "windows" THEN (IF choice = "1" THEN "powershell" ELSE "bash")
    ELSE CASE choice = "1" -> "bash"
           [] choice = "2" -> "zsh"
           [] choice = "3" -> "fish"

\* The environment handed to the child process.
ChildEnv(parent, target, name, platform, term, force) ==
    LET e1 == EnvPut(parent, "TARGET_DIR", PathStr(target))
        e2 == EnvPut(e1, "PROJECT_NAME", name)
        e3 == EnvPut(e2, "AI_PLATFORM", platform)
        e4 == EnvPut(e3, "TERMINAL_TYPE", term)
    IN  IF force THEN EnvPut(e4, "FORCE_INSTALL", "1") ELSE e4

\* The shell that runs the provisioning script.
ShellCmd(os, term) ==
    IF os = "windows" /\ term = "powershell" THEN "powershell" ELSE "bash"

(***************************************************************************)
(* The inputs the model draws from.                                        *)
(***************************************************************************)
\* The working directories: the root and a directory MaxCwdDepth below it.
Cwds == {<<>>, SubSeq(DeepPath, 1, MaxCwdDepth)}

\* What the user may type at the project-name prompt (besides accepting the default).
TypedNames == {".", "demo"}

\* The exit codes of the provisioning script.
ReturnCodes == 0..MaxReturnCode

\* A few of them, for the runs that vary everything else.
SampleCodes == {0, MaxReturnCode}

\* An environment from a record of optional values: the None ones are unset.
MkEnviron(r) ==
    [k \in {x \in DOMAIN r : r[x] # None} |-> r[k]]

Environs(Shells, ClaudeVars, ForceVars) ==
    {MkEnviron([PATH |-> "/usr/bin", SHELL |-> s, CLAUDE_CODE |-> c, FORCE_INSTALL |-> f]) :
        s \in Shells, c \in ClaudeVars, f \in ForceVars}

\* The list command is not running.
ListIdle ==
    /\ cmd_file = <<>>
    /\ line_no = 1
    /\ in_frontmatter = FALSE
    /\ description = ""
    /\ read_error = FALSE
    /\ table = <<>>

\* The state when main is entered, for a set of command lines and a set of worlds.
InitFrom(Argvs, Systems, Envs, Whiches) ==
    /\ argv \in Argvs
    /\ system \in Systems
    /\ environ \in Envs
    /\ which_claude \in Whiches
    /\ cwd \in Cwds
    /\ \E kids \in SUBSET {PathJoin(cwd, "demo")} : fs = Ancestors(cwd) \cup kids
    /\ project_name = argv.project_name
    /\ ai = argv.ai
    /\ terminal = argv.terminal
    /\ target_dir = NoPath
    /\ detected_terminal = None
    /\ detected_os = None
    /\ prompts = <<>>
    /\ confirms = <<>>
    /\ mkdirs = <<>>
    /\ child = <<>>
    /\ returncode = None
    /\ report = "none"
    /\ exc = NoExc
    /\ exit_code = None
    /\ visited = {}
    /\ ListIdle
    /\ pc = "resolve_target"

(***************************************************************************)
(* init, statement by statement.                                           *)
(***************************************************************************)
\* An exception (sys.exit included) raised outside the try statement.
Raise(e) == exc' = e /\ pc' = "raised"

\* Determine target directory.
ResolveTarget ==
    /\ pc = "resolve_target"
    /\ visited' = visited \cup {pc}
    /\ IF UsesCurrentDir(argv.here, project_name) THEN
            /\ target_dir' = cwd
            /\ project_name' = PathName(cwd)
            /\ prompts' = prompts
       ELSE IF Truthy(project_name) THEN
            /\ target_dir' = PathJoin(cwd, project_name)
            /\ UNCHANGED <<project_name, prompts>>
       ELSE \E answer \in TypedNames \cup {PathName(cwd)} :
            /\ prompts' = Append(prompts, [dimension |-> "project_name",
                                           choices |-> {},
                                           default |-> PathName(cwd),
                                           answer |-> answer])
            /\ IF answer = "." THEN
                    /\ target_dir' = cwd
                    /\ project_name' = PathName(cwd)
               ELSE /\ target_dir' = PathJoin(cwd, answer)
                    /\ project_name' = answer
    /\ pc' = "select_ai"
    /\ UNCHANGED <<world, scanner, mkdirs, fs, ai, terminal,
                   detected_terminal, detected_os, confirms, child, returncode,
                   report, exc, exit_code>>

\* Detect and confirm AI platform.
SelectAi ==
    /\ pc = "select_ai"
    /\ visited' = visited \cup {pc}
    /\ IF ~Truthy(ai) THEN
            \E ai_choice \in {"1"} :
                /\ prompts' = Append(prompts, [dimension |-> "ai",
                                               choices |-> {"1"},
                                               default |-> "1",
                                               answer |-> ai_choice])
                /\ ai' = "claude"
       ELSE UNCHANGED <<prompts, ai>>
    /\ pc' = "select_terminal"
    /\ UNCHANGED <<world, scanner, mkdirs, fs, project_name, terminal,
                   target_dir, detected_terminal, detected_os, confirms, child,
                   returncode, report, exc, exit_code>>

\* Detect and confirm terminal.
SelectTerminal ==
    /\ pc = "select_terminal"
    /\ visited' = visited \cup {pc}
    /\ detected_terminal' = detect_terminal(system, environ)
    /\ detected_os' = detect_os(system)
    /\ IF ~Truthy(terminal) THEN
            \E terminal_choice \in TerminalChoices(detected_os') :
                /\ prompts' = Append(prompts,
                        [dimension |-> "terminal",
                         choices |-> TerminalChoices(detected_os'),
                         default |-> TerminalDefault(detected_os', detected_terminal'),
                         answer |-> terminal_choice])
                /\ terminal' = TerminalOfChoice(detected_os', terminal_choice)
       ELSE UNCHANGED <<prompts, terminal>>
    /\ pc' = "check_claude"
    /\ UNCHANGED <<world, scanner, mkdirs, fs, project_name, ai,
                   target_dir, confirms, child, returncode, report, exc, exit_code>>

\* Check for Claude Code (if AI is Claude).
CheckClaude ==
    /\ pc = "check_claude"
    /\ visited' = visited \cup {pc}
    /\ IF ai = "claude" /\ ~check_claude_code(environ, which_claude) THEN
            \E continue \in BOOLEAN :
                /\ confirms' = Append(confirms, "claude")
                /\ IF continue THEN pc' = "check_dir" /\ UNCHANGED <<exc, report>>
                   ELSE report' = "cancelled" /\ Raise(SystemExit(0))
       ELSE pc' = "check_dir" /\ UNCHANGED <<confirms, exc, report>>
    /\ UNCHANGED <<world, scanner, mkdirs, fs, project_name, ai,
                   terminal, target_dir, detected_terminal, detected_os, prompts, child,
                   returncode, exit_code>>

\* Check if directory exists.
CheckDir ==
    /\ pc = "check_dir"
    /\ visited' = visited \cup {pc}
    /\ IF DirExistsWarning(Exists(target_dir), argv.here, project_name) /\ ~argv.force THEN
            \E proceed \in BOOLEAN :
                /\ confirms' = Append(confirms, "dir")
                /\ IF proceed THEN pc' = "create_dir" /\ UNCHANGED <<exc, report>>
                   ELSE report' = "cancelled" /\ Raise(SystemExit(0))
       ELSE pc' = "create_dir" /\ UNCHANGED <<confirms, exc, report>>
    /\ UNCHANGED <<world, scanner, mkdirs, fs, project_name, ai,
                   terminal, target_dir, detected_terminal, detected_os, prompts, child,
                   returncode, exit_code>>

\* Create directory if needed; mkdir may raise OSError.
CreateDir ==
    /\ pc = "create_dir"
    /\ visited' = visited \cup {pc}
    /\ IF ~Exists(target_dir) THEN
            \E created \in BOOLEAN :
                /\ mkdirs' = Append(mkdirs, target_dir)
                /\ IF created THEN
                        /\ fs' = fs \cup Ancestors(target_dir)
                        /\ pc' = "find_script"
                        /\ exc' = exc
                   ELSE fs' = fs /\ Raise(OSError)
       ELSE pc' = "find_script" /\ UNCHANGED <<fs, exc, mkdirs>>
    /\ UNCHANGED <<world, scanner, project_name, ai, terminal,
                   target_dir, detected_terminal, detected_os, prompts, confirms, child,
                   returncode, report, exit_code>>

\* Locate install.sh next to the package.
FindScript ==
    /\ pc = "find_script"
    /\ visited' = visited \cup {pc}
    /\ \E script_exists \in BOOLEAN :
            IF ~script_exists THEN report' = "script_missing" /\ Raise(SystemExit(1))
            ELSE pc' = "run_script" /\ UNCHANGED <<exc, report>>
    /\ UNCHANGED <<world, scanner, mkdirs, fs, project_name, ai,
                   terminal, target_dir, detected_terminal, detected_os, prompts,
                   confirms, child, returncode, exit_code>>

\* The try statement up to subprocess.run: the call either raises (the shell cannot
\* be spawned) or returns one of Codes.
RunScript(Codes) ==
    /\ pc = "run_script"
    /\ visited' = visited \cup {pc}
    /\ \E spawned \in BOOLEAN :
            IF spawned THEN
                \E rc \in Codes :
                    /\ child' = Append(child,
                            [shell_cmd |-> ShellCmd(detected_os, terminal),
                             env |-> ChildEnv(environ, target_dir, project_name, ai,
                                              terminal, argv.force),
                             cwd |-> PathStr(target_dir)])
                    /\ returncode' = rc
                    /\ pc' = "report"
                    /\ UNCHANGED <<exc, report>>
            ELSE /\ report' = "error"
                 /\ exc' = InitExcept(OSError)
                 /\ pc' = "raised"
                 /\ UNCHANGED <<child, returncode>>
    /\ UNCHANGED <<world, scanner, mkdirs, fs, project_name, ai,
                   terminal, target_dir, detected_terminal, detected_os, prompts,
                   confirms, exit_code>>

\* The rest of the try statement: the success panel, or sys.exit(returncode).
Report ==
    /\ pc = "report"
    /\ visited' = visited \cup {pc}
    /\ IF returncode = 0 THEN
            /\ report' = "success"
            /\ pc' = "returned"
            /\ exc' = exc
       ELSE /\ report' = "failed"
            /\ exc' = InitExcept(SystemExit(returncode))
            /\ pc' = "raised"
    /\ UNCHANGED <<world, scanner, mkdirs, fs, project_name, ai,
                   terminal, target_dir, detected_terminal, detected_os, prompts,
                   confirms, child, returncode, exit_code>>

(***************************************************************************)
(* main.                                                                   *)
(***************************************************************************)
\* app() returns: the process ends with status 0.
MainReturn ==
    /\ pc = "returned"
    /\ visited' = visited \cup {pc}
    /\ exit_code' = 0
    /\ pc' = "exited"
    /\ UNCHANGED <<world, scanner, mkdirs, fs, project_name, ai,
                   terminal, target_dir, detected_terminal, detected_os, prompts,
                   confirms, child, returncode, report, exc>>

\* An exception leaves app(): main's handlers, or the interpreter for SystemExit.
MainRaised ==
    /\ pc = "raised"
    /\ visited' = visited \cup {pc}
    /\ exit_code' = MainExcept(exc)
    /\ pc' = "exited"
    /\ UNCHANGED <<world, scanner, mkdirs, fs, project_name, ai,
                   terminal, target_dir, detected_terminal, detected_os, prompts,
                   confirms, child, returncode, report, exc>>

Steps(Codes) ==
    \/ ResolveTarget
    \/ SelectAi
    \/ SelectTerminal
    \/ CheckClaude
    \/ CheckDir
    \/ CreateDir
    \/ FindScript
    \/ RunScript(Codes)
    \/ Report
    \/ MainReturn
    \/ MainRaised

(***************************************************************************)
(* Specifications.                                                         *)
(***************************************************************************)
\* Every command line over a few values per option, in every world over a few
\* values per input, with a few exit codes of the script.
Argvs ==
    [project_name : {None, "", ".", "demo"},
     here : BOOLEAN,
     ai : {None, "", "claude", "copilot"},
     terminal : {None, "", "zsh", "tcsh"},
     force : BOOLEAN]

Init ==
    InitFrom(Argvs,
             {"Linux", "Darwin", "Windows"},
             Environs({None, "/bin/zsh", "/usr/bin/fish"}, {None, "", "1"}, {None, "0"}),
             BOOLEAN)

Next == Steps(SampleCodes)

Spec == Init /\ [][Next]_vars

\* Every exit code of the script, over fewer command lines and worlds.
ArgvsExit ==
    [project_name : {None, ".", "demo"},
     here : {FALSE},
     ai : {None, "claude"},
     terminal : {None, "zsh"},
     force : BOOLEAN]

InitExit ==
    InitFrom(ArgvsExit, {"Linux"}, Environs({"/bin/zsh"}, {None}, {None}), BOOLEAN)

NextExit == Steps(ReturnCodes)

SpecExit == InitExit /\ [][NextExit]_vars

\* Every platform identifier and SHELL value of a larger set, over fewer command
\* lines.
ArgvsDetect ==
    [project_name : {"demo"},
     here : {FALSE},
     ai : {"claude"},
     terminal : {None, "zsh"},
     force : BOOLEAN]

Platforms == {"Linux", "Darwin", "Windows", "FreeBSD", "Java", ""}

ShellValues ==
    {None, "", "/bin/bash", "/bin/zsh", "/usr/bin/fish", "/bin/sh", "/bin/tcsh",
     "/usr/local/bin/rbash", "/opt/zsh/bin/bash", "/opt/fish/bin/zsh",
     "/opt/bash/bin/fish", "zsh", "C:\\Windows\\System32\\cmd.exe"}

InitDetect ==
    InitFrom(ArgvsDetect, Platforms, Environs(ShellValues, {"1"}, {None}), {FALSE})

SpecDetect == InitDetect /\ [][Next]_vars

(***************************************************************************)
(* list_commands: the description scanner, for one command file.           *)
(***************************************************************************)
\* The characters str.strip() removes.
Whitespace == {" ", "\t", "\n", "\r"}

RECURSIVE LStrip(_)
LStrip(s) ==
    IF Len(s) > 0 /\ SubSeq(s, 1, 1) \in Whitespace
    THEN LStrip(SubSeq(s, 2, Len(s)))
    ELSE s

RECURSIVE RStrip(_)
RStrip(s) ==
    IF Len(s) > 0 /\ SubSeq(s, Len(s), Len(s)) \in Whitespace
    THEN RStrip(SubSeq(s, 1, Len(s) - 1))
    ELSE s

\* str.strip()
Strip(s) == RStrip(LStrip(s))

\* str.startswith(prefix)
StartsWith(s, prefix) ==
    Len(s) >= Len(prefix) /\ SubSeq(s, 1, Len(prefix)) = prefix

\* s.split(sep, 1)[1] for an s that contains sep: what follows its first occurrence.
AfterFirst(s, sep) ==
    LET at(i) == SubSeq(s, i, i + Len(sep) - 1) = sep
        first == CHOOSE i \in 1..Len(s) : at(i) /\ \A j \in 1..(i - 1) : ~at(j)
    IN  SubSeq(s, first + Len(sep), Len(s))

\* The test for a frontmatter delimiter line.
IsDelimiter(line) == Strip(line) = "---"

\* The test for the line the description is taken from.
TakesDescriptionAnywhere(in_block, line) == StartsWith(line, "description:")

TakesDescription(in_block, line) == in_block /\ StartsWith(line, "description:")

\* The lines a command file is made of, each as the for loop yields it.
Lines ==
    {"---\n", " ---  \n", "description: one\n", "description:  two \n",
     "  description: three\n", "title: x\n", "description:\n"}

\* The command files: every sequence of at most MaxLines lines.
Files == UNION {[1..n -> Lines] : n \in 0..MaxLines}

\* One iteration of `for line in f`.
ListScanLine ==
    /\ pc = "list_scan"
    /\ line_no <= Len(cmd_file)
    /\ LET line == cmd_file[line_no] IN
       IF IsDelimiter(line) THEN
            IF in_frontmatter THEN
                /\ pc' = "list_add_row"
                /\ UNCHANGED <<in_frontmatter, description>>
            ELSE
                /\ in_frontmatter' = TRUE
                /\ UNCHANGED <<pc, description>>
       ELSE IF TakesDescription(in_frontmatter, line) THEN
            /\ description' = Strip(AfterFirst(line, "description:"))
            /\ pc' = "list_add_row"
            /\ UNCHANGED in_frontmatter
       ELSE UNCHANGED <<pc, in_frontmatter, description>>
    /\ line_no' = line_no + 1
    /\ UNCHANGED <<world, fs, project_name, ai, terminal, target_dir, detected_terminal,
                   detected_os, prompts, confirms, mkdirs, child, returncode, report,
                   exc, exit_code, visited, cmd_file, read_error, table>>

\* The for loop ends: the file has no further line.
ListScanEnd ==
    /\ pc = "list_scan"
    /\ line_no > Len(cmd_file)
    /\ pc' = "list_add_row"
    /\ UNCHANGED <<world, fs, project_name, ai, terminal, target_dir, detected_terminal,
                   detected_os, prompts, confirms, mkdirs, child, returncode, report,
                   exc, exit_code, visited, scanner>>

\* open() or the read of the next line raises: the except clause.
ListReadError ==
    /\ pc = "list_scan"
    /\ description' = "No description available"
    /\ read_error' = TRUE
    /\ pc' = "list_add_row"
    /\ UNCHANGED <<world, fs, project_name, ai, terminal, target_dir, detected_terminal,
                   detected_os, prompts, confirms, mkdirs, child, returncode, report,
                   exc, exit_code, visited, cmd_file, line_no, in_frontmatter, table>>

\* table.add_row(cmd_name, description)
ListAddRow ==
    /\ pc = "list_add_row"
    /\ table' = Append(table, description)
    /\ pc' = "list_done"
    /\ UNCHANGED <<world, fs, project_name, ai, terminal, target_dir, detected_terminal,
                   detected_os, prompts, confirms, mkdirs, child, returncode, report,
                   exc, exit_code, visited, cmd_file, line_no, in_frontmatter,
                   description, read_error>>

\* The list command starts on one command file, in a process that does not run init.
InitList ==
    /\ argv = [project_name |-> None, here |-> FALSE, ai |-> None, terminal |-> None,
               force |-> FALSE]
    /\ system = "Linux"
    /\ environ = MkEnviron([PATH |-> "/usr/bin"])
    /\ which_claude = FALSE
    /\ cwd = <<>>
    /\ fs = {<<>>}
    /\ project_name = None
    /\ ai = None
    /\ terminal = None
    /\ target_dir = NoPath
    /\ detected_terminal = None
    /\ detected_os = None
    /\ prompts = <<>>
    /\ confirms = <<>>
    /\ mkdirs = <<>>
    /\ child = <<>>
    /\ returncode = None
    /\ report = "none"
    /\ exc = NoExc
    /\ exit_code = None
    /\ visited = {}
    /\ cmd_file \in Files
    /\ line_no = 1
    /\ in_frontmatter = FALSE
    /\ description = ""
    /\ read_error = FALSE
    /\ table = <<>>
    /\ pc = "list_scan"

NextList ==
    \/ ListScanLine
    \/ ListScanEnd
    \/ ListReadError
    \/ ListAddRow

SpecList == InitList /\ [][NextList]_vars

(***************************************************************************)
(* What the properties below speak of.                                     *)
(***************************************************************************)
\* Confirm.ask was called for the question c.
Asked(c) == \E i \in DOMAIN confirms : confirms[i] = c

\* The Prompt.ask calls made for the dimension d.
PromptsFor(d) == {i \in DOMAIN prompts : prompts[i].dimension = d}

\* The provisioning script was invoked.
Invoked == child # <<>>

\* The process has ended.
Exited == pc = "exited"

\* The user declined the confirmation c, which cancelled the run.
Declined(c) ==
    /\ report = "cancelled"
    /\ confirms # <<>>
    /\ confirms[Len(confirms)] = c

\* init has executed the statement at the given pc value.
Past(stage) == stage \in visited

(***************************************************************************)
(* C1. A nonzero exit code c in 1..255 of the provisioning script makes    *)
(* init report failure and the process end with exactly exit status c.     *)
(***************************************************************************)
\* C1: once the process has ended after the script returned c in 1..255, the
\* failure was reported and the exit status is c.
C1_ExitCodePropagated ==
    (Exited /\ Invoked /\ returncode \in 1..255)
        => (report = "failed" /\ exit_code = returncode)

\* The script returned 137 and the process ended with 137.
C1_Witness ==
    Exited /\ Invoked /\ returncode = 137 /\ exit_code = 137 /\ report = "failed"

(***************************************************************************)
(* C2. The "directory already exists" confirmation is asked exactly when   *)
(* the target directory exists, force is false and the invocation is not a *)
(* use-current-directory one (neither --here nor a project name of `.`);   *)
(* `init .` and `init --here` never ask it; declining it ends the process  *)
(* with status 0, with no mkdir and no run of the provisioning script.     *)
(***************************************************************************)
\* The target directory existed when the check ran: only mkdir adds a path, and
\* it is called only for a target that did not exist.
ExistedAtCheck == mkdirs = <<>> /\ Exists(target_dir)

\* C2: after the directory check, the confirmation was asked iff the target
\* existed, force is off and neither --here nor `.` was given; declining is a
\* clean abort.
C2_DirConfirmationRule ==
    Past("check_dir") =>
        /\ Asked("dir") <=>
                (ExistedAtCheck /\ ~argv.force
                    /\ ~(argv.here \/ argv.project_name = "."))
        /\ (argv.here \/ argv.project_name = ".") => ~Asked("dir")
        /\ Declined("dir") => (mkdirs = <<>> /\ ~Invoked /\ (Exited => exit_code = 0))

(***************************************************************************)
(* C3. Whenever the provisioning script is invoked, the child's            *)
(* environment has TARGET_DIR, PROJECT_NAME, AI_PLATFORM and TERMINAL_TYPE *)
(* equal to the resolved values, and has FORCE_INSTALL (with value 1) if   *)
(* and only if the force flag was given, whatever the parent environment.  *)
(***************************************************************************)
\* C3: the environment of the invoked child carries the resolved values, and
\* FORCE_INSTALL=1 iff --force.
C3_ChildEnvironment ==
    Invoked =>
        LET e == child[1].env IN
        /\ {"TARGET_DIR", "PROJECT_NAME", "AI_PLATFORM", "TERMINAL_TYPE"} \subseteq DOMAIN e
        /\ e["TARGET_DIR"] = PathStr(target_dir)
        /\ e["PROJECT_NAME"] = project_name
        /\ e["AI_PLATFORM"] = ai
        /\ e["TERMINAL_TYPE"] = terminal
        /\ "FORCE_INSTALL" \in DOMAIN e <=> argv.force
        /\ argv.force => e["FORCE_INSTALL"] = "1"

(***************************************************************************)
(* C4. Whenever the provisioning script is invoked, the resolved AI        *)
(* platform is a supported platform and the resolved terminal is one of    *)
(* the terminals, whether it came from a flag or from a menu.              *)
(***************************************************************************)
SupportedPlatforms == {"claude"}
SupportedTerminals == {"bash", "zsh", "fish", "powershell"}

\* C4: the script is only invoked with a supported platform and terminal.
C4_ResolvedValuesInDomain ==
    Invoked => (ai \in SupportedPlatforms /\ terminal \in SupportedTerminals)

(***************************************************************************)
(* C5. For every combination of pre-supplied project name, --ai and        *)
(* --terminal, with or without --here, init issues no prompt for a         *)
(* dimension that was supplied and exactly one prompt, carrying its        *)
(* default, for each dimension left unset.                                 *)
(***************************************************************************)
\* The prompts for dimension d number n, each offering the default dflt.
PromptedTimes(d, n, dflt) ==
    /\ Cardinality(PromptsFor(d)) = n
    /\ \A i \in PromptsFor(d) : prompts[i].default = dflt

\* The default each prompt is to carry: the working directory's base name, the
\* only key of the AI menu, the key derived from the detected environment.
DefaultFor(d) ==
    CASE d = "project_name" -> PathName(cwd)
      [] d = "ai" -> "1"
      [] d = "terminal" -> TerminalDefault(detected_os, detected_terminal)

\* C5 as stated, over the command lines whose values are each a non-empty string
\* (supplied) or None (left unset): no prompt for a supplied dimension, exactly one
\* prompt with its default for an unset one.
C5_PromptIffUnset ==
    (Past("select_terminal") /\ \A d \in {"project_name", "ai", "terminal"} : argv[d] # "")
        => \A d \in {"project_name", "ai", "terminal"} :
                IF argv[d] # None THEN PromptedTimes(d, 0, DefaultFor(d))
                ELSE PromptedTimes(d, 1, DefaultFor(d))

\* A dimension needs no prompt: it was given a non-empty value, or it is the
\* project name and --here was given.
Settled(d) ==
    \/ argv[d] \notin {None, ""}
    \/ d = "project_name" /\ argv.here

\* C5 as amended: no prompt for a settled dimension, exactly one prompt with its
\* default for every other one (an empty string counts as unset, and --here
\* settles the project name).
C5_PromptIffUnsettled ==
    Past("select_terminal") =>
        \A d \in {"project_name", "ai", "terminal"} :
            IF Settled(d) THEN PromptedTimes(d, 0, DefaultFor(d))
            ELSE PromptedTimes(d, 1, DefaultFor(d))

\* `init --ai claude --terminal ""`: the project name and the terminal are prompted
\* for, in that order, the platform is not.
C5_Witness ==
    /\ Past("select_terminal")
    /\ argv.ai = "claude" /\ argv.project_name = None /\ argv.terminal = ""
    /\ ~argv.here
    /\ Len(prompts) = 2
    /\ prompts[1].dimension = "project_name" /\ prompts[2].dimension = "terminal"

(***************************************************************************)
(* C6. Given --here or a project name of `.` (as argument or as the answer *)
(* to the project-name prompt), the resolved target directory is the       *)
(* working directory and the resolved project name is its base name,       *)
(* whatever project-name argument accompanies --here; these are the values *)
(* passed as TARGET_DIR and PROJECT_NAME.                                  *)
(***************************************************************************)
UseCurrentDirRequested ==
    \/ argv.here
    \/ argv.project_name = "."
    \/ \E i \in PromptsFor("project_name") : prompts[i].answer = "."

\* C6: a use-current-directory request resolves to the working directory and its
\* base name, and the child is given exactly those.
C6_CurrentDirResolution ==
    UseCurrentDirRequested =>
        /\ Past("resolve_target") =>
                (target_dir = cwd /\ project_name = PathName(cwd))
        /\ Invoked =>
                /\ child[1].env["TARGET_DIR"] = PathStr(cwd)
                /\ child[1].env["PROJECT_NAME"] = PathName(cwd)

\* `init demo --here` in /srv/app: the script gets TARGET_DIR=/srv/app and
\* PROJECT_NAME=app.
C6_Witness ==
    /\ Invoked
    /\ argv.here /\ argv.project_name = "demo"
    /\ cwd = <<"srv", "app">>
    /\ child[1].env["TARGET_DIR"] = "/srv/app"
    /\ child[1].env["PROJECT_NAME"] = "app"

(***************************************************************************)
(* C7. The continue/abort confirmation about the missing Claude CLI is     *)
(* requested if and only if the resolved AI platform is claude and the CLI *)
(* is absent (neither the CLAUDE_CODE marker variable set nor a `claude`   *)
(* executable on the search path); when it is declined, init ends with     *)
(* exit status 0 before any mkdir and before the provisioning script runs. *)
(***************************************************************************)
\* What declining the Claude confirmation leads to.
ClaudeDeclineIsCleanAbort ==
    Declined("claude") =>
        /\ pc \in {"raised", "exited"}
        /\ exc = SystemExit(0)
        /\ mkdirs = <<>>
        /\ ~Invoked
        /\ Exited => exit_code = 0

\* C7 as stated: the confirmation is asked iff the platform is claude, the marker
\* variable is not set and no executable is found; declining is a clean abort.
C7_ClaudeConfirmIffMarkerUnset ==
    Past("check_claude") =>
        /\ Asked("claude") <=>
                (ai = "claude" /\ "CLAUDE_CODE" \notin DOMAIN environ /\ ~which_claude)
        /\ ClaudeDeclineIsCleanAbort

\* C7 as amended: the confirmation is asked iff the platform is claude, the marker
\* variable is unset or empty and no executable is found; declining is a clean abort.
C7_ClaudeConfirmIffMarkerEmpty ==
    Past("check_claude") =>
        /\ Asked("claude") <=>
                (/\ ai = "claude"
                 /\ EnvGet(environ, "CLAUDE_CODE", "") = ""
                 /\ ~which_claude)
        /\ ClaudeDeclineIsCleanAbort

\* The confirmation was asked and declined, and the process ended with status 0.
C7_Witness ==
    /\ Exited
    /\ Declined("claude")
    /\ exit_code = 0
    /\ "CLAUDE_CODE" \notin DOMAIN environ

(***************************************************************************)
(* C8. Every setup error of init (the provisioning script missing, mkdir   *)
(* of the target directory failing, an exception while spawning the child) *)
(* ends the process with exit status 1, never 0, and never after the       *)
(* success report.                                                         *)
(***************************************************************************)
ScriptMissing == report = "script_missing"
MkdirFailed == mkdirs # <<>> /\ exc = OSError
SpawnFailed == report = "error"

\* C8: a process that ended after a setup error ended with status 1, without
\* the success report and without having run the script.
C8_SetupErrorsExitOne ==
    (Exited /\ (ScriptMissing \/ MkdirFailed \/ SpawnFailed))
        => (exit_code = 1 /\ report # "success" /\ ~Invoked)

\* mkdir failed and the process ended with status 1.
C8_Witness == Exited /\ MkdirFailed /\ exit_code = 1

(***************************************************************************)
(* C9. For every platform identifier and every value (or absence) of       *)
(* SHELL the detector yields an os in {linux, macos, windows} and a        *)
(* terminal in {bash, zsh, fish, powershell} such that: windows gives      *)
(* powershell; macos gives zsh if the shell is zsh and bash otherwise;     *)
(* linux gives the shell, which is the first of bash, zsh, fish found as a *)
(* substring of SHELL and otherwise bash.                                  *)
(***************************************************************************)
\* The first of bash, zsh, fish that occurs in SHELL, otherwise bash.
FirstShellIn(shell) ==
    IF \E n \in {"bash", "zsh", "fish"} : Contains(shell, n)
    THEN LET order == <<"bash", "zsh", "fish">>
             first == CHOOSE i \in 1..3 :
                        /\ Contains(shell, order[i])
                        /\ \A j \in 1..(i - 1) : ~Contains(shell, order[j])
         IN  order[first]
    ELSE "bash"

\* C9: the detected (os, terminal) pair is in range and follows the rules.
C9_DetectorRules ==
    Past("select_terminal") =>
        LET shell == FirstShellIn(EnvGet(environ, "SHELL", "")) IN
        /\ detected_os \in {"linux", "macos", "windows"}
        /\ detected_terminal \in {"bash", "zsh", "fish", "powershell"}
        /\ detected_os = "windows" => detected_terminal = "powershell"
        /\ detected_os = "macos" =>
                detected_terminal = (IF shell = "zsh" THEN "zsh" ELSE "bash")
        /\ detected_os = "linux" => detected_terminal = shell

\* macOS with a fish login shell is detected as (macos, bash).
C9_Witness ==
    /\ Past("select_terminal")
    /\ system = "Darwin"
    /\ EnvGet(environ, "SHELL", "") = "/usr/bin/fish"
    /\ detected_os = "macos" /\ detected_terminal = "bash"

(***************************************************************************)
(* C10. When init prompts for the terminal, the menu key offered as the    *)
(* default selects the terminal that detect_terminal returned.             *)
(***************************************************************************)
\* C10: every terminal prompt's default key selects the detected terminal.
C10_DefaultIsDetectedTerminal ==
    \A i \in PromptsFor("terminal") :
        TerminalOfChoice(detected_os, prompts[i].default) = detected_terminal

(***************************************************************************)
(* C11. The description scanner is a two-state scan over a file's lines:   *)
(* the first `---` line enters the metadata block and the next one ends    *)
(* the scan; the description is the trimmed remainder of the first line in *)
(* the block that begins with `description:`; it is empty when there is no *)
(* such line before the closing delimiter or no delimiter at all; a        *)
(* `description:` line outside the block is never used.                    *)
(***************************************************************************)
\* The least element of a non-empty set of numbers.
Least(S) == CHOOSE x \in S : \A y \in S : x <= y

\* The delimiter lines of the file f.
DelimitersOf(f) == {i \in DOMAIN f : Strip(f[i]) = "---"}

\* The lines of f inside the metadata block: after the first delimiter and before
\* the second (or the end of the file).
BlockOf(f) ==
    IF DelimitersOf(f) = {} THEN {}
    ELSE LET opening == Least(DelimitersOf(f))
             later == {i \in DelimitersOf(f) : i > opening}
             closing == IF later = {} THEN Len(f) + 1 ELSE Least(later)
         IN  (opening + 1)..(closing - 1)

\* The description the claim assigns to the file f.
DescriptionOf(f) ==
    LET keyed == {i \in BlockOf(f) : StartsWith(f[i], "description:")} IN
    IF keyed = {} THEN ""
    ELSE LET line == f[Least(keyed)]
         IN  Strip(SubSeq(line, Len("description:") + 1, Len(line)))

\* C11: while the scan runs, in_frontmatter tells whether the one delimiter read
\* so far has been read and no description is set; when a scan ends without a
\* read error, the description, and the row added, is the one the claim assigns.
C11_DescriptionScanner ==
    /\ pc = "list_scan" =>
            LET read == {i \in DelimitersOf(cmd_file) : i < line_no} IN
            /\ Cardinality(read) <= 1
            /\ in_frontmatter <=> read # {}
            /\ description = ""
    /\ (pc \in {"list_add_row", "list_done"} /\ ~read_error) =>
            description = DescriptionOf(cmd_file)
    /\ (pc = "list_done" /\ ~read_error) => table = <<DescriptionOf(cmd_file)>>

\* A file with a description line before the block and another inside it: the
\* row carries the trimmed value of the one inside.
C11_Witness ==
    /\ pc = "list_done"
    /\ ~read_error
    /\ cmd_file = <<"description: one\n", " ---  \n", "description:  two \n", "---\n">>
    /\ table = <<"two">>

====
